---- MODULE Spec2Model ----
(***************************************************************************)
(* Process supervision engine of myterm (src-tauri/src/lib.rs).            *)
(*                                                                         *)
(* The registry (ProcessManager.processes) maps a process key to a         *)
(* ManagedProcess handle {pid, stop_flag, stdin}.  stop_flag and stdin are *)
(* Arc cells: a thread that cloned them keeps reading and writing the cell *)
(* of the handle it cloned from, also after that handle left the map.      *)
(* Handles are therefore numbered (the number of the start call that       *)
(* created them) and the cells are indexed by handle number.               *)
(*                                                                         *)
(* Threads: the caller thread (Tauri runs the synchronous commands and the *)
(* exit handler on it, one at a time), one supervision thread per handle,  *)
(* one escalation thread per successful stop, and the children, which the  *)
(* operating system runs.                                                  *)
(*                                                                         *)
(* The updater: parse_version / is_newer_version / check_for_update are    *)
(* operators over strings, a string being a sequence of characters.        *)
(* install_update and restart_app run step by step over a file system of   *)
(* bundle paths; a path is a sequence of file names and a file name a      *)
(* sequence of dot-separated pieces, as Path::with_extension sees it.      *)
(* restart_app has a slot of its own, so that an exit request may arrive   *)
(* between its store of skip_process_cleanup and its process::exit.        *)
(***************************************************************************)
EXTENDS Integers, Sequences, FiniteSets, TLC

\* ----------------------------------------------------------------- bounds
MaxCalls == 3
MaxSpawns == 2
MaxPolls == 1
MaxLen == 3
MaxAssets == 2

Identities == { <<"/p", "web">>, <<"/p", "db">> }
NoId == <<"", "">>
Gens == 1..MaxCalls
Pids == 1..MaxSpawns

\* ------------------------------------------------------------------ state
VARIABLES
  registry,     \* ProcessManager.processes: key -> handle number, 0 = no entry
  hpid,         \* ManagedProcess.pid of each handle
  stopFlag,     \* ManagedProcess.stop_flag (Arc<AtomicBool>) of each handle
  stdinCell,    \* ManagedProcess.stdin (Arc<Mutex<Option<ChildStdin>>>): 0 = None,
                \* p = the stdin pipe of child p
  mapLock,      \* holder of the registry mutex across steps: 0 = free
  pc,           \* position of each supervision thread
  idOf,         \* (project_path, process_name) captured by each supervision thread
  autorestart,  \* autorestart captured by each supervision thread
  child,        \* the thread's local `child`: pid of the child it spawned last
  proc,         \* operating system: state of each spawn attempt / process group
  owner,        \* handle whose supervision thread made the spawn attempt
  nSpawn,       \* spawn attempts made so far (an attempt's number is its pid)
  termSent,     \* pgids that were sent SIGTERM
  killSent,     \* pgids that were sent SIGKILL
  flagAtExit,   \* value of the owner's stop flag when the child exited
  outcome,      \* the status the supervision loop emitted for the attempt's end
  events,       \* process-status events received by the event sink, per identity
  logs,         \* process-log events of the supervision loop itself, per identity
  cmd,          \* the command or exit handler running on the caller thread
  ret,          \* the result the last command returned
  nCalls,       \* commands invoked so far
  wd,           \* escalation threads spawned by stop_process
  exited,       \* the application process has exited
  latest,       \* the `latest` argument of is_newer_version / release.tag_name
  current,      \* the `current` argument / app.package_info().version
  upd,          \* the update command that ran last, with what it returned
  exe,          \* env::current_exe(): the path the running executable was started from
  fs,           \* what each bundle path of the applications directory holds
  inst,         \* install_update: its position, its locals, the steps it ran, its result
  skip_process_cleanup,  \* RestartState.skip_process_cleanup
  rst,          \* restart_app: its position, its locals, its result
  helper        \* the relaunch helper: its environment and what it has done

regVars == << registry, hpid, stopFlag, stdinCell, mapLock >>
thrVars == << pc, idOf, autorestart, child >>
osVars == << proc, owner, nSpawn, termSent, killSent, flagAtExit, outcome >>
callVars == << cmd, ret, nCalls >>
verVars == << latest, current, upd >>
bundleVars == << exe, fs, inst, skip_process_cleanup, rst, helper >>
updVars == << verVars, bundleVars >>
vars == << regVars, thrVars, osVars, events, logs, callVars, wd, exited, updVars >>

\* ---------------------------------------------------------------- helpers
process_key(project_path, process_name) == project_path \o "::" \o process_name

KeyOf(id) == process_key(id[1], id[2])

Keys == { KeyOf(id) : id \in Identities }

Idle == [op |-> "idle"]

\* emit_status: the sink receives the event; nothing is stored by the core
emit_status(ev, id, status) == [ev EXCEPT ![id] = Append(@, status)]

\* an emit_log that drops the line
emit_log_dropped(lg, id, line, stream) == lg

\* emit_log: the sink receives the line with its stream name
emit_log(lg, id, line, stream) == [lg EXCEPT ![id] = Append(@, << stream, line >>)]

\* signal_process_group: a no-op for pgid 0, otherwise kill(-pgid, signal)
SignalTargets(pgids) == pgids \ {0}

\* a SIGKILL that the group survives
KillIgnored(pr, S) == pr

\* the effect of SIGKILL on the groups of S: a living group dies at once
KillEffect(pr, S) == [p \in Pids |-> IF p \in S /\ pr[p] = "alive" THEN "zombie" ELSE pr[p]]

ExitFlags(S) ==
  [p \in Pids |-> IF p \in S /\ proc[p] = "alive" THEN stopFlag[owner[p]] ELSE flagAtExit[p]]

\* process_group_exists: false for pgid 0 and once the group is gone; whether a
\* group whose only member is an unreaped zombie counts depends on the kernel
GroupExistsOutcomes(pgid) ==
  IF pgid = 0 THEN {FALSE}
  ELSE IF proc[pgid] = "alive" THEN {TRUE}
  ELSE IF proc[pgid] = "zombie" THEN {TRUE, FALSE}
  ELSE {FALSE}

\* the stdin Mutex of handle g is held by write_to_process during its write
CellHeld(g) == cmd.op = "write" /\ cmd.phase = "writing" /\ cmd.gen = g

MapFree(g) == mapLock = 0 \/ mapLock = g

Running == ~exited

\* ------------------------------------------------------------------- init
\* the managed state after construction: an empty registry, nothing running;
\* ids are the identities the callers of the commands use
SupervisorInitOver(ids) ==
  /\ registry = [k \in { KeyOf(id) : id \in ids } |-> 0]
  /\ hpid = [g \in Gens |-> 0]
  /\ stopFlag = [g \in Gens |-> FALSE]
  /\ stdinCell = [g \in Gens |-> 0]
  /\ mapLock = 0
  /\ pc = [g \in Gens |-> "none"]
  /\ idOf = [g \in Gens |-> NoId]
  /\ autorestart = [g \in Gens |-> FALSE]
  /\ child = [g \in Gens |-> 0]
  /\ proc = [p \in Pids |-> "unborn"]
  /\ owner = [p \in Pids |-> 0]
  /\ nSpawn = 0
  /\ termSent = {}
  /\ killSent = {}
  /\ flagAtExit = [p \in Pids |-> FALSE]
  /\ outcome = [p \in Pids |-> "none"]
  /\ events = [id \in ids |-> << >>]
  /\ logs = [id \in ids |-> << >>]
  /\ cmd = Idle
  /\ ret = [n |-> 0, op |-> "none", id |-> NoId, res |-> "none"]
  /\ nCalls = 0
  /\ wd = << >>
  /\ exited = FALSE

SupervisorInit == SupervisorInitOver(Identities)

\* no update command has run
NoUpd == [op |-> "none"]

VersionIdle ==
  /\ latest = << >>
  /\ current = << >>
  /\ upd = NoUpd

\* ------------------------------------------------------------ bundle paths
\* a path is the sequence of its file names, a file name the sequence of its
\* pieces between the dots: MyTerm.app.old is << "MyTerm", "app", "old" >>
HasExtension(name) == Len(name) >= 2 /\ ~(Len(name) = 2 /\ name[1] = "")

\* Path::extension(): the piece after the last dot of the file name, if any
extension(path) ==
  IF path # << >> /\ HasExtension(path[Len(path)])
  THEN << path[Len(path)][Len(path[Len(path)])] >> ELSE << >>

\* Path::with_extension(ext): the piece after the last dot of the file name is
\* replaced by ext, and ext is added when the file name has no such piece
with_extension(path, ext) ==
  LET name == path[Len(path)]
      stem == IF HasExtension(name) THEN SubSeq(name, 1, Len(name) - 1) ELSE name
  IN  SubSeq(path, 1, Len(path) - 1) \o << stem \o ext >>

\* the file name ends with ".app.old"
is_backup_bundle(path) ==
  /\ extension(path) = << "old" >>
  /\ LET name == path[Len(path)]
     IN  Len(name) >= 3 /\ name[Len(name) - 1] = "app"

IsBundle(path) == extension(path) = << "app" >> \/ is_backup_bundle(path)

\* find_app_bundle_path: the first ancestor of the executable path, the path
\* itself included, that is a bundle or a backup bundle; << >> stands for Err
find_app_bundle_path ==
  IF \E n \in 1..Len(exe) : IsBundle(SubSeq(exe, 1, n))
  THEN SubSeq(exe, 1, CHOOSE n \in 1..Len(exe) :
                        /\ IsBundle(SubSeq(exe, 1, n))
                        /\ \A k \in (n + 1)..Len(exe) : ~IsBundle(SubSeq(exe, 1, k)))
  ELSE << >>

resolve_primary_app_bundle_path(running_bundle) ==
  IF is_backup_bundle(running_bundle)
  THEN with_extension(running_bundle, << "app" >>)
  ELSE running_bundle

AppsDir == << << "Applications" >> >>

PrimaryBundle == AppsDir \o << << "MyTerm", "app" >> >>
BackupBundle == AppsDir \o << << "MyTerm", "app", "old" >> >>

InBundle == << << "Contents" >>, << "MacOS" >>, << "myterm" >> >>

\* the bundle paths the commands can name
BundlePaths ==
  { PrimaryBundle, BackupBundle,
    AppsDir \o << << "MyTerm", "app", "app" >> >>,
    AppsDir \o << << "MyTerm", "app", "app", "old" >> >> }

\* Path::exists()
exists(path) == path \in BundlePaths /\ fs[path] # "none"

InstIdle == [pc |-> "idle", url |-> << >>, app_bundle |-> << >>, backup_bundle |-> << >>,
             trace |-> << >>, res |-> ""]

RstIdle == [pc |-> "idle", app_bundle |-> << >>, backup_bundle |-> << >>, res |-> ""]

NoHelper == [st |-> "none", MYTERM_APP |-> << >>, MYTERM_BACKUP |-> << >>, opened |-> "none"]

\* the application runs from its primary bundle, no backup beside it
BundleIdle ==
  /\ exe = PrimaryBundle \o InBundle
  /\ fs = [b \in BundlePaths |-> IF b = PrimaryBundle THEN "old" ELSE "none"]
  /\ inst = InstIdle
  /\ skip_process_cleanup = FALSE
  /\ rst = RstIdle
  /\ helper = NoHelper

Init == SupervisorInit /\ VersionIdle /\ BundleIdle

\* ---------------------------------------------------------- start_process
\* a start_process that inserts without looking
StartRejectedNever(k) == FALSE

\* map.contains_key(&key): the admission check
StartRejected(k) == registry[k] # 0

\* the handle start_process inserts: pid 0, flag false, stdin None
start_process(id, ar) ==
  /\ Running /\ cmd = Idle /\ mapLock = 0 /\ nCalls < MaxCalls
  /\ LET k == KeyOf(id)
         g == nCalls + 1
     IN  /\ nCalls' = g
         /\ cmd' = cmd
         /\ IF StartRejected(k)
            THEN /\ ret' = [n |-> g, op |-> "start", id |-> id, res |-> "AlreadyRunning"]
                 /\ UNCHANGED << regVars, thrVars >>
            ELSE /\ ret' = [n |-> g, op |-> "start", id |-> id, res |-> "Ok"]
                 /\ registry' = [registry EXCEPT ![k] = g]
                 /\ hpid' = [hpid EXCEPT ![g] = 0]
                 /\ stopFlag' = [stopFlag EXCEPT ![g] = FALSE]
                 /\ stdinCell' = [stdinCell EXCEPT ![g] = 0]
                 /\ pc' = [pc EXCEPT ![g] = "check"]
                 /\ idOf' = [idOf EXCEPT ![g] = id]
                 /\ autorestart' = [autorestart EXCEPT ![g] = ar]
                 /\ UNCHANGED << mapLock, child >>
  /\ UNCHANGED << updVars, logs, osVars, events, wd, exited >>

\* ------------------------------------------------------ supervision thread
\* top of the loop: leave it when the stop flag is set
T_Check(g) ==
  /\ Running /\ pc[g] = "check"
  /\ pc' = [pc EXCEPT ![g] = IF stopFlag[g] THEN "remove" ELSE "spawn"]
  /\ UNCHANGED << updVars, logs, regVars, idOf, autorestart, child, osVars, events, callVars, wd, exited >>

\* a loop that restarts whatever autorestart says
AfterCrashAlways(ar) == "backoff"

\* a loop that never restarts
AfterCrashNever(ar) == "remove"

\* where the loop goes after a "crashed" status
AfterCrash(ar) == IF ar THEN "backoff" ELSE "remove"

\* cmd.spawn(): a child in its own process group, or an error
T_Spawn(g) ==
  /\ Running /\ pc[g] = "spawn" /\ nSpawn < MaxSpawns
  /\ LET p == nSpawn + 1
     IN  /\ nSpawn' = p
         /\ owner' = [owner EXCEPT ![p] = g]
         /\ \/ /\ proc' = [proc EXCEPT ![p] = "alive"]
               /\ child' = [child EXCEPT ![g] = p]
               /\ pc' = [pc EXCEPT ![g] = "record"]
               /\ events' = events
               /\ logs' = logs
               /\ outcome' = outcome
            \/ /\ proc' = [proc EXCEPT ![p] = "failed"]
               /\ child' = child
               /\ logs' = emit_log(logs, idOf[g], "Failed to start", "stderr")
               /\ events' = emit_status(events, idOf[g], "crashed")
               /\ outcome' = [outcome EXCEPT ![p] = "crashed"]
               /\ pc' = [pc EXCEPT ![g] = AfterCrash(autorestart[g])]
  /\ UNCHANGED << updVars, regVars, idOf, autorestart, termSent, killSent, flagAtExit, callVars, wd,
                  exited >>

\* the entry the thread finds under its key, 0 if there is none
Entry(g) == registry[KeyOf(idOf[g])]

\* the registry mutex is taken first and the stdin mutex inside it: when
\* write_to_process holds the stdin mutex the thread waits with the map locked
T_LockWait(g) ==
  /\ Running /\ pc[g] \in {"record", "clear"} /\ mapLock = 0
  /\ Entry(g) # 0 /\ CellHeld(Entry(g))
  /\ mapLock' = g
  /\ UNCHANGED << updVars, logs, registry, hpid, stopFlag, stdinCell, thrVars, osVars, events, callVars, wd, exited >>

\* after a successful spawn: pid and stdin pipe into the entry, then "running"
T_Record(g) ==
  /\ Running /\ pc[g] = "record" /\ MapFree(g)
  /\ LET h == Entry(g)
     IN  /\ h # 0 => ~CellHeld(h)
         /\ hpid' = IF h # 0 THEN [hpid EXCEPT ![h] = child[g]] ELSE hpid
         /\ stdinCell' = IF h # 0 THEN [stdinCell EXCEPT ![h] = child[g]] ELSE stdinCell
  /\ mapLock' = 0
  /\ events' = emit_status(events, idOf[g], "running")
  /\ pc' = [pc EXCEPT ![g] = "wait"]
  /\ UNCHANGED << updVars, logs, registry, stopFlag, idOf, autorestart, child, osVars, callVars, wd, exited >>

\* child.wait() returns once the child has exited, and reaps it
T_Wait(g) ==
  /\ Running /\ pc[g] = "wait" /\ proc[child[g]] = "zombie"
  /\ proc' = [proc EXCEPT ![child[g]] = "reaped"]
  /\ pc' = [pc EXCEPT ![g] = "clear"]
  /\ UNCHANGED << updVars, logs, regVars, idOf, autorestart, child, owner, nSpawn, termSent, killSent,
                  flagAtExit, outcome, events, callVars, wd, exited >>

\* a clear that leaves the pipe in the cell
KeptPipe(cell) == cell

\* *handle = None
NoPipe(cell) == 0

\* after the wait: the stdin cell of the entry is emptied
T_Clear(g) ==
  /\ Running /\ pc[g] = "clear" /\ MapFree(g)
  /\ LET h == Entry(g)
     IN  /\ h # 0 => ~CellHeld(h)
         /\ stdinCell' = IF h # 0 THEN [stdinCell EXCEPT ![h] = NoPipe(@)] ELSE stdinCell
  /\ mapLock' = 0
  /\ pc' = [pc EXCEPT ![g] = "decide"]
  /\ UNCHANGED << updVars, logs, registry, hpid, stopFlag, idOf, autorestart, child, osVars, events,
                  callVars, wd, exited >>

\* a loop that reports every exit as a crash
ExitStatusCrashed(flag) == "crashed"

\* the status emitted after an exit, by the stop flag read at that moment
ExitStatus(flag) == IF flag THEN "stopped" ELSE "crashed"

\* a loop that does not look at the stop flag after an exit
AfterExitIgnoresFlag(flag, ar) == IF ar THEN "backoff" ELSE "remove"

\* a loop that returns from the thread on a stop instead of leaving the loop
AfterExitReturn(flag, ar) == IF flag THEN "done" ELSE IF ar THEN "backoff" ELSE "remove"

\* where the loop goes after an exit
AfterExit(flag, ar) == IF flag THEN "remove" ELSE AfterCrash(ar)

\* the [exit] line of the wait that returned (the exit code or the signal),
\* then the status by the stop flag
T_Decide(g) ==
  /\ Running /\ pc[g] = "decide"
  /\ logs' = emit_log(logs, idOf[g], "[exit]", "stdout")
  /\ events' = emit_status(events, idOf[g], ExitStatus(stopFlag[g]))
  /\ outcome' = [outcome EXCEPT ![child[g]] = ExitStatus(stopFlag[g])]
  /\ pc' = [pc EXCEPT ![g] = AfterExit(stopFlag[g], autorestart[g])]
  /\ UNCHANGED << updVars, regVars, idOf, autorestart, child, proc, owner, nSpawn, termSent, killSent,
                  flagAtExit, callVars, wd, exited >>

\* thread::sleep(1 s), then `continue` / the next iteration
T_Backoff(g) ==
  /\ Running /\ pc[g] = "backoff"
  /\ pc' = [pc EXCEPT ![g] = "check"]
  /\ UNCHANGED << updVars, logs, regVars, idOf, autorestart, child, osVars, events, callVars, wd, exited >>

\* after the loop: map.remove(&key)
T_Remove(g) ==
  /\ Running /\ pc[g] = "remove" /\ mapLock = 0
  /\ registry' = [registry EXCEPT ![KeyOf(idOf[g])] = 0]
  /\ pc' = [pc EXCEPT ![g] = "done"]
  /\ UNCHANGED << updVars, logs, hpid, stopFlag, stdinCell, mapLock, idOf, autorestart, child, osVars,
                  events, callVars, wd, exited >>

\* ---------------------------------------------------------------- children
\* a child exits: on its own, or as its reaction to SIGTERM
ChildExits(p) ==
  /\ Running /\ proc[p] = "alive"
  /\ proc' = [proc EXCEPT ![p] = "zombie"]
  /\ flagAtExit' = [flagAtExit EXCEPT ![p] = stopFlag[owner[p]]]
  /\ UNCHANGED << updVars, logs, regVars, thrVars, owner, nSpawn, termSent, killSent, outcome, events,
                  callVars, wd, exited >>

\* ----------------------------------------------------------- stop_process
\* a lookup that falls back on the newest handle when the key is absent
StopEntryFallback(k) == IF registry[k] # 0 THEN registry[k] ELSE nCalls

\* map.get(&key): the handle stop_process acts on, 0 when the key is absent
StopEntry(k) == registry[k]

\* the lookup under the registry lock: NotRunning, or (entry.pid, entry.stop_flag)
StopLookup(id) ==
  /\ Running /\ cmd = Idle /\ mapLock = 0 /\ nCalls < MaxCalls
  /\ nCalls' = nCalls + 1
  /\ LET h == StopEntry(KeyOf(id))
     IN  IF h = 0
         THEN /\ ret' = [n |-> nCalls + 1, op |-> "stop", id |-> id, res |-> "NotRunning"]
              /\ cmd' = cmd
         ELSE /\ cmd' = [op |-> "stop", id |-> id, gen |-> h, pid |-> hpid[h]]
              /\ ret' = ret
  /\ UNCHANGED << updVars, logs, regVars, thrVars, osVars, events, wd, exited >>

\* the pgids the graceful terminate of stop_process goes to
StopTermTargets(pid) == SignalTargets({pid})

\* outside the lock: the flag is set, SIGTERM goes to the pid read under the
\* lock, and the escalation thread is spawned
StopSignal ==
  /\ Running /\ cmd.op = "stop"
  /\ stopFlag' = [stopFlag EXCEPT ![cmd.gen] = TRUE]
  /\ termSent' = termSent \cup StopTermTargets(cmd.pid)
  /\ wd' = Append(wd, [id |-> cmd.id, gen |-> cmd.gen, pid |-> cmd.pid, st |-> "armed",
                       target |-> 0, live |-> {}])
  /\ ret' = [n |-> nCalls, op |-> "stop", id |-> cmd.id, res |-> "Ok"]
  /\ cmd' = Idle
  /\ UNCHANGED << updVars, logs, registry, hpid, stdinCell, mapLock, thrVars, proc, owner, nSpawn, killSent,
                  flagAtExit, outcome, events, nCalls, exited >>

\* the pid the escalation thread probes: the current pid of the entry under the
\* key, or the pid stop_process read when the key is gone
WatchdogPid(w) ==
  LET h == registry[KeyOf(w.id)] IN IF h # 0 THEN hpid[h] ELSE w.pid

\* the living children of an identity
LiveOf(id) == { p \in Pids : proc[p] = "alive" /\ idOf[owner[p]] = id }

\* the escalation thread, when its 3 s sleep is over
Watchdog(i) ==
  /\ Running /\ i \in DOMAIN wd /\ wd[i].st = "armed" /\ mapLock = 0
  /\ LET pid == WatchdogPid(wd[i])
     IN  \E ex \in GroupExistsOutcomes(pid) :
           LET K == IF ex THEN SignalTargets({pid}) ELSE {}
           IN  /\ killSent' = killSent \cup K
               /\ proc' = KillEffect(proc, K)
               /\ flagAtExit' = ExitFlags(K)
               /\ wd' = [wd EXCEPT ![i] = [@ EXCEPT !.st = "fired", !.target = pid,
                                                     !.live = LiveOf(wd[i].id)]]
  /\ UNCHANGED << updVars, logs, regVars, thrVars, owner, nSpawn, termSent, outcome, events, callVars,
                  exited >>

\* ------------------------------------------------------- write_to_process
\* the lookup under the registry lock: NotRunning, or a clone of the stdin cell
WriteLookup(id) ==
  /\ Running /\ cmd = Idle /\ mapLock = 0 /\ nCalls < MaxCalls
  /\ nCalls' = nCalls + 1
  /\ LET h == registry[KeyOf(id)]
     IN  IF h = 0
         THEN /\ ret' = [n |-> nCalls + 1, op |-> "write", id |-> id, res |-> "NotRunning"]
              /\ cmd' = cmd
         ELSE /\ cmd' = [op |-> "write", id |-> id, gen |-> h, phase |-> "lock", pipe |-> 0]
              /\ ret' = ret
  /\ UNCHANGED << updVars, logs, regVars, thrVars, osVars, events, wd, exited >>

\* a write that takes the pipe of the child the thread holds, not the cell's
CellPipeOfChild(g) == child[g]

\* handle.as_mut(): the pipe in the cell, 0 for None
CellPipe(g) == stdinCell[g]

\* the stdin mutex is taken: StdinUnavailable on an empty cell, else the write starts
WriteLock ==
  /\ Running /\ cmd.op = "write" /\ cmd.phase = "lock"
  /\ IF CellPipe(cmd.gen) = 0
     THEN /\ ret' = [n |-> nCalls, op |-> "write", id |-> cmd.id, res |-> "StdinUnavailable"]
          /\ cmd' = Idle
     ELSE /\ cmd' = [cmd EXCEPT !.phase = "writing", !.pipe = CellPipe(cmd.gen)]
          /\ ret' = ret
  /\ UNCHANGED << updVars, logs, regVars, thrVars, osVars, events, nCalls, wd, exited >>

\* write_all and flush return: Ok, or the I/O error of a closed pipe
WriteDone ==
  /\ Running /\ cmd.op = "write" /\ cmd.phase = "writing"
  /\ \E r \in {"Ok", "WriteFailed"} :
       ret' = [n |-> nCalls, op |-> "write", id |-> cmd.id, res |-> r]
  /\ cmd' = Idle
  /\ UNCHANGED << updVars, logs, regVars, thrVars, osVars, events, nCalls, wd, exited >>

\* ------------------------------------------- exit handler: shutdown of all
Registered == { registry[k] : k \in Keys } \ {0}

\* a collection that stops after the first entry
CollectPgidsFirst(H) == IF H = {} THEN {} ELSE { hpid[CHOOSE g \in H : TRUE] } \ {0}

\* the pgids stop_all_processes collects: the pid of every entry with pid > 0
CollectPgids(H) == { hpid[g] : g \in H } \ {0}

\* a handler that never skips the cleanup
SkipNever(flag) == FALSE

\* restart_state.should_skip_cleanup()
should_skip_cleanup(flag) == flag

\* the exit handler.  With the restart flag set it returns at once and the exit
\* goes on; else it prevents the exit and runs stop_all_processes, under the
\* registry lock: every flag set, the pgids collected
ExitRequested ==
  /\ Running /\ cmd = Idle
  /\ IF should_skip_cleanup(skip_process_cleanup)
     THEN /\ exited' = TRUE
          /\ UNCHANGED << stopFlag, cmd >>
     ELSE /\ mapLock = 0
          /\ stopFlag' = [g \in Gens |-> IF g \in Registered THEN TRUE ELSE stopFlag[g]]
          /\ cmd' = [op |-> "shutdown", phase |-> "term", reg |-> Registered,
                     pgids |-> CollectPgids(Registered), polls |-> 0, live |-> {}]
          /\ exited' = exited
  /\ UNCHANGED << updVars, logs, registry, hpid, stdinCell, mapLock, thrVars, osVars, events, ret, nCalls,
                  wd >>

\* stop_all_processes, after the lock: SIGTERM to every collected pgid
SD_Term ==
  /\ Running /\ cmd.op = "shutdown" /\ cmd.phase = "term"
  /\ termSent' = termSent \cup SignalTargets(cmd.pgids)
  /\ cmd' = [cmd EXCEPT !.phase = "wait1"]
  /\ UNCHANGED << updVars, logs, regVars, thrVars, proc, owner, nSpawn, killSent, flagAtExit, outcome,
                  events, ret, nCalls, wd, exited >>

CanAllGone(S) == \A p \in S : FALSE \in GroupExistsOutcomes(p)
CanSomeExist(S) == \E p \in S : TRUE \in GroupExistsOutcomes(p)

WindowAfter(phase) == IF phase = "wait1" THEN "kill" ELSE "exit"

\* one iteration of a polling window of wait_then_force_kill: return when every
\* group is gone, else sleep 50 ms.  When wait_then_force_kill returns the exit
\* handler calls app_handle.exit(0): the process ends, and every thread with it
SD_Poll ==
  /\ Running /\ cmd.op = "shutdown" /\ cmd.phase \in {"wait1", "wait2"}
  /\ cmd.polls < MaxPolls
  /\ \/ /\ CanAllGone(cmd.pgids)
        /\ cmd' = [cmd EXCEPT !.phase = "exit"]
        /\ exited' = TRUE
     \/ /\ CanSomeExist(cmd.pgids)
        /\ cmd' = [cmd EXCEPT !.polls = @ + 1]
        /\ exited' = exited
  /\ UNCHANGED << updVars, logs, regVars, thrVars, osVars, events, ret, nCalls, wd >>

\* start.elapsed() >= the window: the loop is left
SD_TimeUp ==
  /\ Running /\ cmd.op = "shutdown" /\ cmd.phase \in {"wait1", "wait2"}
  /\ cmd' = [cmd EXCEPT !.phase = WindowAfter(cmd.phase), !.polls = 0]
  /\ exited' = (cmd.phase = "wait2")
  /\ UNCHANGED << updVars, logs, regVars, thrVars, osVars, events, ret, nCalls, wd >>

\* between the windows: SIGKILL to every collected group that still exists
SD_Kill ==
  /\ Running /\ cmd.op = "shutdown" /\ cmd.phase = "kill"
  /\ \E K \in SUBSET cmd.pgids :
       /\ \A p \in cmd.pgids : (p \in K) \in GroupExistsOutcomes(p)
       /\ killSent' = killSent \cup SignalTargets(K)
       /\ proc' = KillEffect(proc, K)
       /\ flagAtExit' = ExitFlags(K)
  /\ cmd' = [cmd EXCEPT !.phase = "wait2",
                        !.live = { p \in cmd.pgids : proc[p] = "alive" }]
  /\ UNCHANGED << updVars, logs, regVars, thrVars, owner, nSpawn, termSent, outcome, events, ret, nCalls,
                  wd, exited >>

\* ------------------------------------------------------ version comparison
\* a version string is the sequence of its characters
Digit == { "0", "1", "2", "3", "4", "5", "6", "7", "8", "9" }

DigitValue(c) == CHOOSE n \in 0..9 : << "0", "1", "2", "3", "4", "5", "6", "7", "8", "9" >>[n + 1] = c

IsSpace(c) == c = " "

RECURSIVE TrimStart(_)
TrimStart(s) == IF s # << >> /\ IsSpace(Head(s)) THEN TrimStart(Tail(s)) ELSE s

RECURSIVE TrimEnd(_)
TrimEnd(s) == IF s # << >> /\ IsSpace(s[Len(s)]) THEN TrimEnd(SubSeq(s, 1, Len(s) - 1)) ELSE s

\* str::trim: the whitespace at both ends goes
trim(s) == TrimEnd(TrimStart(s))

\* str::trim_start_matches(c): every leading occurrence of c goes
RECURSIVE trim_start_matches(_, _)
trim_start_matches(s, c) ==
  IF s # << >> /\ Head(s) = c THEN trim_start_matches(Tail(s), c) ELSE s

\* str::split(sep): the pieces between the separators, one piece at least
RECURSIVE split(_, _)
split(s, sep) ==
  IF \E i \in 1..Len(s) : s[i] = sep
  THEN LET i == CHOOSE j \in 1..Len(s) : s[j] = sep /\ \A k \in 1..(j - 1) : s[k] # sep
       IN  << SubSeq(s, 1, i - 1) >> \o split(SubSeq(s, i + 1, Len(s)), sep)
  ELSE << s >>

RECURSIVE DecimalValue(_)
DecimalValue(d) ==
  IF d = << >> THEN 0
  ELSE DecimalValue(SubSeq(d, 1, Len(d) - 1)) * 10 + DigitValue(d[Len(d)])

\* part.parse::<u32>(): an optional "+" and then one decimal digit at least,
\* nothing else; -1 stands for Err.  Parts of the inputs drawn here have fewer
\* than ten digits, so the overflow error of the parse is out of their reach
parse_u32(part) ==
  LET d == IF part # << >> /\ Head(part) = "+" THEN Tail(part) ELSE part
  IN  IF d # << >> /\ \A i \in 1..Len(d) : d[i] \in Digit THEN DecimalValue(d) ELSE -1

\* .unwrap_or(0)
unwrap_or_0(r) == IF r = -1 THEN 0 ELSE r

parse_version(version) ==
  LET parts == split(trim_start_matches(trim(version), "v"), ".")
  IN  [i \in 1..Len(parts) |-> unwrap_or_0(parse_u32(parts[i]))]

\* a lookup that repeats the last component past the end
GetOrLast(parts, idx) == IF idx < Len(parts) THEN parts[idx + 1] ELSE parts[Len(parts)]

\* *parts.get(idx).unwrap_or(&0), idx counted from 0
GetOr0(parts, idx) == IF idx < Len(parts) THEN parts[idx + 1] ELSE 0

\* the for loop of is_newer_version, from idx on
RECURSIVE NewerFrom(_, _, _, _)
NewerFrom(latest_parts, current_parts, idx, max_len) ==
  IF idx >= max_len THEN FALSE
  ELSE LET latest_value == GetOr0(latest_parts, idx)
           current_value == GetOr0(current_parts, idx)
       IN  IF latest_value > current_value THEN TRUE
           ELSE IF latest_value < current_value THEN FALSE
           ELSE NewerFrom(latest_parts, current_parts, idx + 1, max_len)

is_newer_version(latest_s, current_s) ==
  LET latest_parts == parse_version(latest_s)
      current_parts == parse_version(current_s)
      max_len == IF Len(latest_parts) >= Len(current_parts)
                 THEN Len(latest_parts) ELSE Len(current_parts)
  IN  NewerFrom(latest_parts, current_parts, 0, max_len)

\* the characters the version strings are drawn from
Chars == { "v", ".", "0", "1", "x", " " }

Versions == UNION { [1..n -> Chars] : n \in 0..MaxLen }

Examples ==
  { << "1", ".", "2", ".", "0" >>, << "1", ".", "1", ".", "9" >>, << "2" >>,
    << "1", ".", "9", "9", ".", "9", "9" >>, << "1", ".", "0" >>,
    << "1", ".", "0", ".", "0" >> }

\* app.package_info().version.to_string(): major.minor.patch
PackageVersions == { << "1", ".", "0", ".", "0" >>, << "1", ".", "1", ".", "9" >> }

\* the pure function applied to the two strings
CallIsNewer ==
  /\ Running /\ upd.op = "none"
  /\ upd' = [op |-> "is_newer", res |-> is_newer_version(latest, current)]
  /\ UNCHANGED << regVars, thrVars, osVars, events, logs, callVars, wd, exited, latest,
                  current, bundleVars >>

\* ------------------------------------------------------- check_for_update
AssetNames == { "MyTerm.zip", "myterm.zip", "MyTerm.zip.sha256" }

\* release.assets: asset i of the list has its own download URL
AssetLists ==
  { [i \in 1..Len(names) |-> [name |-> names[i],
                              browser_download_url |-> "https://dl/" \o ToString(i)]] :
      names \in UNION { [1..m -> AssetNames] : m \in 0..MaxAssets } }

\* what curl and the JSON parse can give
FetchOutcomes == { "curl not run", "curl failed", "bad json", "ok" }

Err(msg) == [err |-> msg, available |-> FALSE, version |-> << >>, download_url |-> ""]

Ok(available, version, download_url) ==
  [err |-> "", available |-> available, version |-> version, download_url |-> download_url]

\* a search that takes any asset of the release
FindAny(assets, wanted) == IF assets = << >> THEN 0 ELSE 1

\* assets.iter().find(|asset| asset.name == wanted): the first match, 0 for None
Find(assets, wanted) ==
  IF \E i \in 1..Len(assets) : assets[i].name = wanted
  THEN CHOOSE i \in 1..Len(assets) :
         assets[i].name = wanted /\ \A j \in 1..(i - 1) : assets[j].name # wanted
  ELSE 0

UpdateInfo(fetch, tag_name, current_version, assets) ==
  IF fetch = "curl not run" THEN Err("Failed to fetch updates")
  ELSE IF fetch = "curl failed" THEN Err("gh api failed")
  ELSE IF fetch = "bad json" THEN Err("invalid release")
  ELSE LET latest_version == trim_start_matches(tag_name, "v")
           available == is_newer_version(latest_version, current_version)
           found == Find(assets, "MyTerm.zip")
       IN  IF available
           THEN IF found = 0
                THEN Err("Update available, but MyTerm.zip asset not found")
                ELSE Ok(TRUE, tag_name, assets[found].browser_download_url)
           ELSE Ok(FALSE, tag_name, "")

check_for_update ==
  /\ Running /\ upd.op = "none" /\ current \in PackageVersions
  /\ \E fetch \in FetchOutcomes, assets \in AssetLists :
       upd' = [op |-> "check", fetch |-> fetch, assets |-> assets,
               res |-> UpdateInfo(fetch, latest, current, assets)]
  /\ UNCHANGED << regVars, thrVars, osVars, events, logs, callVars, wd, exited, latest,
                  current, bundleVars >>

\* --------------------------------------------------------- install_update
\* what the frame of every install step leaves alone
instFrame == << regVars, thrVars, osVars, events, logs, callVars, wd, exited, verVars, exe,
                skip_process_cleanup, rst, helper >>

\* the download URLs a caller passes
Urls == { << >>, << " " >>, << "u" >> }

InstErr(msg) == [inst EXCEPT !.pc = "done", !.res = msg]

InstRan(step, next) == [inst EXCEPT !.pc = next, !.trace = Append(@, step)]

\* a check that lets every URL through
UrlMissingNever(url) == FALSE

\* download_url.trim().is_empty()
UrlMissing(url) == trim(url) = << >>

\* the command is invoked: an empty URL is rejected before anything is done
install_update(download_url) ==
  /\ Running /\ inst.pc = "idle" /\ rst.pc = "idle"
  /\ inst' = IF UrlMissing(download_url)
             THEN [inst EXCEPT !.pc = "done", !.url = download_url,
                               !.res = "Missing download URL"]
             ELSE [inst EXCEPT !.pc = "locate", !.url = download_url]
  /\ UNCHANGED << instFrame, fs >>

\* find_app_bundle_path()?; app_bundle.parent() is None for the root only
I_Locate ==
  /\ Running /\ inst.pc = "locate"
  /\ inst' = IF find_app_bundle_path = << >>
             THEN [InstErr("Could not determine app bundle path") EXCEPT
                     !.trace = Append(@, "locate")]
             ELSE [InstRan("locate", "tempdir") EXCEPT !.app_bundle = find_app_bundle_path]
  /\ UNCHANGED << instFrame, fs >>

\* create_temp_dir()? and create_dir_all(extract_dir)?
I_TempDir ==
  /\ Running /\ inst.pc = "tempdir"
  /\ \/ inst' = [InstErr("temp dir") EXCEPT !.trace = Append(@, "tempdir")]
     \/ inst' = InstRan("tempdir", "download")
  /\ UNCHANGED << instFrame, fs >>

\* curl -sL -o zip_path download_url: not run, a failure status, or success
I_Download ==
  /\ Running /\ inst.pc = "download"
  /\ \/ inst' = [InstErr("Failed to run gh CLI") EXCEPT !.trace = Append(@, "download")]
     \/ inst' = [InstErr("gh release download failed") EXCEPT !.trace = Append(@, "download")]
     \/ inst' = InstRan("download", "extract")
  /\ UNCHANGED << instFrame, fs >>

\* unzip -q zip_path -d extract_dir
I_Unzip ==
  /\ Running /\ inst.pc = "extract"
  /\ \/ inst' = [InstErr("Failed to unzip update") EXCEPT !.trace = Append(@, "extract")]
     \/ inst' = InstRan("extract", "find")
  /\ UNCHANGED << instFrame, fs >>

\* find_app_in_dir(extract_dir), then xattr on what was found, its status ignored
I_FindExtracted ==
  /\ Running /\ inst.pc = "find"
  /\ \/ inst' = [InstErr("Could not locate extracted .app bundle") EXCEPT
                   !.trace = Append(@, "find")]
     \/ inst' = InstRan("find", "rm")
  /\ UNCHANGED << instFrame, fs >>

\* backup_bundle = app_bundle.with_extension("app.old"); rm -rf backup_bundle,
\* its status ignored: the stale backup is gone, or rm failed and it is still there
I_RemoveBackup ==
  /\ Running /\ inst.pc = "rm"
  /\ LET backup_bundle == with_extension(inst.app_bundle, << "app", "old" >>)
     IN  /\ inst' = [InstRan("rm", "mv") EXCEPT !.backup_bundle = backup_bundle]
         /\ \/ fs' = [fs EXCEPT ![backup_bundle] = "none"]
            \/ fs' = fs
  /\ UNCHANGED instFrame

\* mv app_bundle backup_bundle: a rename, or a move into backup_bundle when that
\* directory is still there; it fails when not run or when there is nothing to move
I_Move ==
  /\ Running /\ inst.pc = "mv"
  /\ \/ /\ inst' = [InstErr("Failed to move old app bundle") EXCEPT !.trace = Append(@, "mv")]
        /\ fs' = fs
     \/ /\ exists(inst.app_bundle)
        /\ inst' = InstRan("mv", "cp")
        /\ fs' = [fs EXCEPT ![inst.app_bundle] = "none",
                            ![inst.backup_bundle] =
                               IF fs[inst.backup_bundle] = "none"
                               THEN fs[inst.app_bundle] ELSE "nested"]
  /\ UNCHANGED instFrame

\* cp -R extracted_app app_bundle, then xattr on app_bundle, its status ignored
I_Copy ==
  /\ Running /\ inst.pc = "cp"
  /\ \/ /\ inst' = [InstErr("Failed to copy new app bundle") EXCEPT !.trace = Append(@, "cp")]
        /\ \E left \in { "none", "partial" } : fs' = [fs EXCEPT ![inst.app_bundle] = left]
     \/ /\ inst' = [InstRan("cp", "done") EXCEPT !.res = "Ok"]
        /\ fs' = [fs EXCEPT ![inst.app_bundle] = "new"]
  /\ UNCHANGED instFrame

\* ------------------------------------------------------------ restart_app
rstFrame == << regVars, thrVars, osVars, events, logs, callVars, wd, verVars, exe, fs, inst >>

\* a check that takes every path as present
MissingNever(path) == FALSE

\* !app_bundle.exists()
Missing(path) == ~exists(path)

\* the command is invoked: the running bundle is found, the primary path and
\* the backup path are derived from it, and the primary bundle has to exist
restart_app ==
  /\ Running /\ rst.pc = "idle" /\ inst.pc \in { "idle", "done" }
  /\ LET running_bundle == find_app_bundle_path
         app_bundle == resolve_primary_app_bundle_path(running_bundle)
         backup_bundle == with_extension(app_bundle, << "app", "old" >>)
     IN  rst' = IF running_bundle = << >>
                THEN [rst EXCEPT !.pc = "done", !.res = "Could not determine app bundle path"]
                ELSE IF Missing(app_bundle)
                THEN [rst EXCEPT !.pc = "done", !.app_bundle = app_bundle,
                                 !.backup_bundle = backup_bundle,
                                 !.res = "Updated app bundle not found"]
                ELSE [rst EXCEPT !.pc = "helper", !.app_bundle = app_bundle,
                                 !.backup_bundle = backup_bundle]
  /\ UNCHANGED << rstFrame, exited, skip_process_cleanup, helper >>

\* spawn_restart_helper: the temp dir, the script and the spawn can each fail;
\* the spawned helper is a process of its own session
R_Helper ==
  /\ Running /\ rst.pc = "helper"
  /\ \/ /\ \E msg \in { "temp dir", "script not written", "helper not spawned" } :
             rst' = [rst EXCEPT !.pc = "done", !.res = msg]
        /\ helper' = helper
     \/ /\ rst' = [rst EXCEPT !.pc = "mark"]
        /\ helper' = [st |-> "waiting", MYTERM_APP |-> rst.app_bundle,
                      MYTERM_BACKUP |-> rst.backup_bundle, opened |-> "none"]
  /\ UNCHANGED << rstFrame, exited, skip_process_cleanup >>

\* state.mark_update_restart()
R_Mark ==
  /\ Running /\ rst.pc = "mark"
  /\ skip_process_cleanup' = TRUE
  /\ rst' = [rst EXCEPT !.pc = "exit"]
  /\ UNCHANGED << rstFrame, exited, helper >>

\* std::process::exit(0)
R_Exit ==
  /\ Running /\ rst.pc = "exit"
  /\ exited' = TRUE
  /\ rst' = [rst EXCEPT !.pc = "exited"]
  /\ UNCHANGED << rstFrame, skip_process_cleanup, helper >>

\* the helper script, once its wait for the application is over:
\* /usr/bin/open -n "$APP_BUNDLE"
H_Open ==
  /\ helper.st = "waiting"
  /\ helper' = [helper EXCEPT !.st = "opened", !.opened = fs[helper.MYTERM_APP]]
  /\ UNCHANGED << rstFrame, exited, skip_process_cleanup, rst >>

\* /bin/rm -rf "$BACKUP_BUNDLE"
H_RemoveBackup ==
  /\ helper.st = "opened"
  /\ helper' = [helper EXCEPT !.st = "finished"]
  /\ fs' = [fs EXCEPT ![helper.MYTERM_BACKUP] = "none"]
  /\ UNCHANGED << regVars, thrVars, osVars, events, logs, callVars, wd, verVars, exe, inst,
                  exited, skip_process_cleanup, rst >>

\* the steps every specification shares: supervision threads and children
Supervise ==
  \/ \E id \in Identities, ar \in BOOLEAN : start_process(id, ar)
  \/ \E g \in Gens : T_Check(g)
  \/ \E g \in Gens : T_Spawn(g)
  \/ \E g \in Gens : T_Record(g)
  \/ \E g \in Gens : T_Wait(g)
  \/ \E g \in Gens : T_Clear(g)
  \/ \E g \in Gens : T_Decide(g)
  \/ \E g \in Gens : T_Backoff(g)
  \/ \E g \in Gens : T_Remove(g)
  \/ \E p \in Pids : ChildExits(p)

\* the commands against the supervision threads
Next ==
  \/ Supervise
  \/ \E g \in Gens : T_LockWait(g)
  \/ \E id \in Identities : StopLookup(id)
  \/ StopSignal
  \/ \E i \in 1..MaxCalls : Watchdog(i)
  \/ \E id \in Identities : WriteLookup(id)
  \/ WriteLock
  \/ WriteDone

Spec == Init /\ [][Next]_vars

\* the exit handler against the supervision threads
ShutNext ==
  \/ Supervise
  \/ ExitRequested
  \/ SD_Term
  \/ SD_Poll
  \/ SD_TimeUp
  \/ SD_Kill

ShutSpec == Init /\ [][ShutNext]_vars

\* the version strings are drawn, then compared or checked for an update
VerInit ==
  /\ SupervisorInit
  /\ latest \in Versions \cup Examples
  /\ current \in Versions \cup Examples
  /\ upd = NoUpd
  /\ BundleIdle

VerNext ==
  \/ CallIsNewer
  \/ check_for_update

VerSpec == VerInit /\ [][VerNext]_vars

\* where the application can be running from when an update is installed: its
\* primary bundle, with or without a stale backup beside it; a backup bundle
\* that an earlier update left behind, with or without the rest of that
\* update's copy at the primary path; or no bundle at all
ExeOutsideBundle == << << "target" >>, << "debug" >>, << "myterm" >> >>

UpdInit ==
  /\ SupervisorInit /\ VersionIdle
  /\ \/ /\ exe = PrimaryBundle \o InBundle
        /\ \E stale \in { "none", "stale" } :
             fs = [b \in BundlePaths |-> IF b = PrimaryBundle THEN "old"
                                         ELSE IF b = BackupBundle THEN stale ELSE "none"]
     \/ /\ exe = BackupBundle \o InBundle
        /\ \E left \in { "none", "partial" } :
             fs = [b \in BundlePaths |-> IF b = BackupBundle THEN "old"
                                         ELSE IF b = PrimaryBundle THEN left ELSE "none"]
     \/ /\ exe = ExeOutsideBundle
        /\ fs = [b \in BundlePaths |-> "none"]
  /\ inst = InstIdle
  /\ skip_process_cleanup = FALSE
  /\ rst = RstIdle
  /\ helper = NoHelper

UpdNext ==
  \/ \E url \in Urls : install_update(url)
  \/ I_Locate
  \/ I_TempDir
  \/ I_Download
  \/ I_Unzip
  \/ I_FindExtracted
  \/ I_RemoveBackup
  \/ I_Move
  \/ I_Copy
  \/ restart_app
  \/ R_Helper
  \/ R_Mark
  \/ R_Exit
  \/ H_Open
  \/ H_RemoveBackup

UpdSpec == UpdInit /\ [][UpdNext]_vars

\* restart_app against the exit handler, with processes started, spawned and
\* recorded in the registry, and children that exit
RestartNext ==
  \/ \E id \in Identities, ar \in BOOLEAN : start_process(id, ar)
  \/ \E g \in Gens : T_Check(g)
  \/ \E g \in Gens : T_Spawn(g)
  \/ \E g \in Gens : T_Record(g)
  \/ \E p \in Pids : ChildExits(p)
  \/ restart_app
  \/ R_Helper
  \/ R_Mark
  \/ R_Exit
  \/ ExitRequested
  \/ SD_Term
  \/ SD_Poll
  \/ SD_TimeUp
  \/ SD_Kill

RestartSpec == Init /\ [][RestartNext]_vars

\* the supervision threads are operating-system threads: a thread that can take
\* the step out of its sleep or its flag check does take it
FairSpec ==
  Spec /\ \A g \in Gens : WF_vars(T_Backoff(g)) /\ WF_vars(T_Check(g))

\* identities with the separator of process_key inside a path or a name
SeparatorIdentities == { << "/p::x", "web" >>, << "/p", "x::web" >>, << "/p", "web" >> }

KeyInit == SupervisorInitOver(SeparatorIdentities) /\ VersionIdle /\ BundleIdle

\* the commands and the supervision threads, called with those identities
KeyNext ==
  \/ \E id \in SeparatorIdentities, ar \in BOOLEAN : start_process(id, ar)
  \/ \E g \in Gens : T_Check(g)
  \/ \E g \in Gens : T_Spawn(g)
  \/ \E g \in Gens : T_Record(g)
  \/ \E g \in Gens : T_Wait(g)
  \/ \E g \in Gens : T_Clear(g)
  \/ \E g \in Gens : T_Decide(g)
  \/ \E g \in Gens : T_Backoff(g)
  \/ \E g \in Gens : T_Remove(g)
  \/ \E p \in Pids : ChildExits(p)
  \/ \E id \in SeparatorIdentities : StopLookup(id)
  \/ StopSignal
  \/ \E i \in 1..MaxCalls : Watchdog(i)
  \/ \E id \in SeparatorIdentities : WriteLookup(id)
  \/ WriteLock
  \/ WriteDone

KeySpec == KeyInit /\ [][KeyNext]_vars

\* one step of the supervision thread of handle g
ThreadStep(g) ==
  \/ T_Check(g) \/ T_Spawn(g) \/ T_Record(g) \/ T_Wait(g)
  \/ T_Clear(g) \/ T_Decide(g) \/ T_Backoff(g) \/ T_Remove(g)

\* every thread is an operating-system thread and takes the step it can take:
\* the supervision threads, the escalation threads when their sleep is over,
\* and the caller thread inside a command.  A child is under no obligation to
\* exit, and no command is under an obligation to be called
LiveSpec ==
  /\ Spec
  /\ \A g \in Gens : WF_vars(ThreadStep(g))
  /\ \A i \in 1..MaxCalls : WF_vars(Watchdog(i))
  /\ WF_vars(StopSignal \/ WriteLock \/ WriteDone)

\* ------------------------------------------------------------------ claims
\* a supervision thread that was spawned and has not finished
Live(g) == pc[g] \notin {"none", "done"}

\* a command was invoked in this step
Called(op, id) ==
  /\ nCalls' = nCalls + 1
  /\ \/ cmd' # Idle /\ cmd'.op = op /\ cmd'.id = id
     \/ cmd' = Idle /\ ret'.n = nCalls' /\ ret'.op = op /\ ret'.id = id

\* a command returned in this step
Returned(op) == ret'.n # ret.n /\ ret'.op = op

\* C1, state part: every registry entry belongs to exactly one running
\* supervision thread of its identity, and no other thread of that identity runs
C1_OneLoop ==
  /\ \A g1, g2 \in Gens : Live(g1) /\ Live(g2) /\ idOf[g1] = idOf[g2] => g1 = g2
  /\ \A g \in Gens : Live(g) => registry[KeyOf(idOf[g])] = g
  /\ \A k \in Keys : registry[k] # 0 => Live(registry[k]) /\ KeyOf(idOf[registry[k]]) = k

\* C1, step part: a start on a registered identity returns AlreadyRunning, leaves
\* every handle (pid, stop flag, stdin cell) and every thread as it was
C1_Rejects ==
  \A id \in Identities :
    Called("start", id) /\ registry[KeyOf(id)] # 0 =>
      /\ ret'.res = "AlreadyRunning"
      /\ UNCHANGED << regVars, thrVars >>

\* C1: at most one handle and one supervision loop per identity; a start on a
\* registered identity is rejected and changes nothing
C1_SingleHandle == [](C1_OneLoop) /\ [][C1_Rejects]_vars

C1_Witness ==
  /\ ret.op = "start" /\ ret.res = "AlreadyRunning"
  /\ registry[KeyOf(ret.id)] # 0
  /\ pc[registry[KeyOf(ret.id)]] = "wait"
  /\ \E g \in Gens : Live(g) /\ idOf[g] # ret.id

\* C2: a stop on an identity that is not registered returns NotRunning at once
\* and sets no stop flag, sends no signal, spawns no escalation thread
C2_StopAbsent ==
  [][\A id \in Identities :
       Called("stop", id) /\ registry[KeyOf(id)] = 0 =>
         /\ cmd' = Idle /\ ret'.res = "NotRunning"
         /\ UNCHANGED << regVars, thrVars, osVars, events, wd >>]_vars

C2_Witness ==
  /\ ret.op = "stop" /\ ret.res = "NotRunning"
  /\ registry[KeyOf(ret.id)] = 0
  /\ \E g \in Gens : pc[g] = "wait" /\ proc[child[g]] = "alive" /\ ~stopFlag[g]
  /\ termSent = {} /\ killSent = {} /\ wd = << >>

\* C3, step part: NotRunning exactly when the key is absent at the lookup; once
\* the stdin mutex is taken, StdinUnavailable exactly when the cell is empty, and
\* the write goes to the pipe the cell holds
C3_Steps ==
  /\ \A id \in Identities :
       Called("write", id) =>
         IF registry[KeyOf(id)] = 0
         THEN cmd' = Idle /\ ret'.res = "NotRunning"
         ELSE cmd'.op = "write" /\ cmd'.gen = registry[KeyOf(id)] /\ ret' = ret
  /\ (cmd.op = "write" /\ cmd.phase = "lock" /\ cmd' # cmd) =>
       IF stdinCell[cmd.gen] = 0
       THEN cmd' = Idle /\ ret'.op = "write" /\ ret'.res = "StdinUnavailable"
       ELSE cmd'.phase = "writing" /\ cmd'.pipe = stdinCell[cmd.gen] /\ ret' = ret
  /\ (Returned("write") /\ ret'.res \in {"Ok", "WriteFailed"}) =>
       cmd.phase = "writing" /\ stdinCell[cmd.gen] = cmd.pipe

\* C3, state part: a write in progress holds the pipe of the cell, and the cell
\* of a registered handle is empty before its first spawn, in the backoff and
\* once the exit of its child was handled
C3_Cell ==
  /\ (cmd.op = "write" /\ cmd.phase = "writing") =>
       cmd.pipe # 0 /\ stdinCell[cmd.gen] = cmd.pipe
  /\ \A g \in Gens :
       pc[g] \in {"check", "spawn", "record", "backoff", "decide", "remove"} =>
         stdinCell[g] = 0

\* C3: write_stdin returns NotRunning for an absent identity, StdinUnavailable
\* for a registered one whose cell is empty, and writes only to a pipe in the cell
C3_WriteStdin == [](C3_Cell) /\ [][C3_Steps]_vars

C3_Witness ==
  /\ ret.op = "write" /\ ret.res = "StdinUnavailable"
  /\ registry[KeyOf(ret.id)] # 0
  /\ pc[registry[KeyOf(ret.id)]] = "backoff"

\* the spawn attempts a supervision thread made
AttemptsOf(g) == { p \in Pids : owner[p] = g }

\* the thread of g took its step at the stop-flag check after the wait
Decides(g) == pc[g] = "decide" /\ pc'[g] # "decide"

Emits(g, status) == events'[idOf[g]] = Append(events[idOf[g]], status)

\* C4 as stated: a child of a handle without autorestart that exited while the
\* stop flag was not set is reported crashed, and its start call spawns no other
C4_AsStated ==
  \A p \in Pids :
    (proc[p] = "reaped" /\ outcome[p] # "none" /\ ~autorestart[owner[p]] /\ ~flagAtExit[p]) =>
      /\ outcome[p] = "crashed"
      /\ AttemptsOf(owner[p]) = {p}

C4_Step ==
  \A g \in Gens :
    Decides(g) /\ ~stopFlag[g] /\ ~autorestart[g] => Emits(g, "crashed") /\ pc'[g] = "remove"

C4_State ==
  \A g \in Gens :
    ~autorestart[g] =>
      /\ Cardinality(AttemptsOf(g)) <= 1
      /\ \A p \in AttemptsOf(g) : outcome[p] = "crashed" => pc[g] \in {"remove", "done"}
      /\ pc[g] = "done" => registry[KeyOf(idOf[g])] # g

\* C4, amended: without autorestart, when the loop reads the stop flag after the
\* wait and finds it not set, it emits crashed and goes to the removal of the
\* identity; a handle without autorestart makes one spawn attempt at most
C4_NoRestart == [](C4_State) /\ [][C4_Step]_vars

C4_Witness ==
  \E p \in Pids :
    /\ proc[p] = "reaped" /\ outcome[p] = "crashed" /\ ~flagAtExit[p]
    /\ ~autorestart[owner[p]] /\ pc[owner[p]] = "done"
    /\ registry[KeyOf(idOf[owner[p]])] = 0
    /\ nSpawn = 1

\* C5 as stated: a child of a handle with autorestart that exited while the stop
\* flag was not set is reported crashed, with the identity still registered
C5_AsStated ==
  \A p \in Pids :
    (proc[p] = "reaped" /\ outcome[p] # "none" /\ autorestart[owner[p]] /\ ~flagAtExit[p]) =>
      /\ outcome[p] = "crashed"
      /\ pc[owner[p]] = "backoff" => registry[KeyOf(idOf[owner[p]])] = owner[p]

C5_Step ==
  \A g \in Gens :
    /\ Decides(g) /\ ~stopFlag[g] /\ autorestart[g] => Emits(g, "crashed") /\ pc'[g] = "backoff"
    /\ pc[g] = "backoff" /\ pc'[g] # "backoff" => pc'[g] = "check"
    /\ pc[g] = "check" /\ pc'[g] # "check" /\ ~stopFlag[g] => pc'[g] = "spawn"
    /\ pc[g] = "spawn" /\ pc'[g] # "spawn" => nSpawn' = nSpawn + 1 /\ owner'[nSpawn'] = g

C5_State ==
  \A g \in Gens :
    pc[g] \in {"decide", "backoff", "check", "spawn", "record"} => registry[KeyOf(idOf[g])] = g

C5_Live == \A g \in Gens : (pc[g] = "backoff") ~> (pc[g] = "spawn" \/ stopFlag[g])

\* C5, amended: with autorestart, when the loop reads the stop flag after the
\* wait and finds it not set, it emits crashed and backs off; from the backoff it
\* reaches the next spawn unless the flag is set meanwhile, and the identity
\* stays registered throughout
C5_Restart == [](C5_State) /\ [][C5_Step]_vars /\ C5_Live

C5_Witness ==
  \E g \in Gens :
    /\ autorestart[g] /\ pc[g] = "wait" /\ ~stopFlag[g]
    /\ AttemptsOf(g) = {1, 2}
    /\ proc[1] = "reaped" /\ outcome[1] = "crashed" /\ proc[2] = "alive"
    /\ registry[KeyOf(idOf[g])] = g /\ hpid[g] = 2

C6_Step ==
  \A g \in Gens :
    /\ Decides(g) /\ stopFlag[g] => Emits(g, "stopped") /\ pc'[g] = "remove"
    /\ Live(g) /\ stopFlag[g] => stopFlag'[g]

C6_State ==
  \A p \in Pids :
    (proc[p] = "reaped" /\ outcome[p] # "none" /\ flagAtExit[p]) =>
      /\ outcome[p] = "stopped"
      /\ pc[owner[p]] \in {"remove", "done"}
      /\ \A q \in AttemptsOf(owner[p]) : q <= p

\* C6: a child that exited with the stop flag set is reported stopped, never
\* crashed, and its loop goes to the removal, with or without autorestart
C6_Stopped == [](C6_State) /\ [][C6_Step]_vars

C6_Witness ==
  \E p \in Pids :
    /\ proc[p] = "reaped" /\ flagAtExit[p] /\ outcome[p] = "stopped"
    /\ autorestart[owner[p]] /\ pc[owner[p]] = "done"
    /\ nSpawn = 1 /\ nCalls = MaxCalls

\* C7: after a stop that returned Ok the process group of the handle has been
\* sent the graceful terminate, and every group of the identity that is alive
\* when the grace period ends is sent the forceful kill
C7_StopEscalates ==
  \A i \in DOMAIN wd :
    /\ \A p \in AttemptsOf(wd[i].gen) : proc[p] = "alive" => p \in termSent
    /\ wd[i].st = "fired" => wd[i].live \subseteq killSent

\* the loop of g ended: it left the loop for good
C8_Step ==
  /\ \A g \in Gens :
       /\ pc[g] = "remove" /\ pc'[g] # "remove" =>
            pc'[g] = "done" /\ registry'[KeyOf(idOf[g])] = 0
       /\ pc[g] # "done" /\ pc'[g] = "done" => pc[g] = "remove"
       /\ pc[g] = "check" /\ pc'[g] # "check" /\ stopFlag[g] => pc'[g] = "remove"
       /\ pc[g] = "spawn" /\ pc'[g] # "spawn" /\ proc'[nSpawn'] = "failed" /\ ~autorestart[g] =>
            pc'[g] = "remove"
       /\ Decides(g) /\ (stopFlag[g] \/ ~autorestart[g]) => pc'[g] = "remove"
  /\ \A id \in Identities :
       Called("start", id) /\ (\A g \in Gens : idOf[g] = id => pc[g] = "done") =>
         ret'.res = "Ok" /\ registry'[KeyOf(id)] = nCalls' /\ pc'[nCalls'] = "check"

C8_State ==
  /\ \A g \in Gens : pc[g] = "done" => registry[KeyOf(idOf[g])] # g
  /\ \A k \in Keys : registry[k] # 0 => Live(registry[k])

\* C8: every way out of the supervision loop leads to the removal of the
\* identity, no entry outlives its loop, and a start of an identity whose loops
\* have all ended succeeds
C8_Removed == [](C8_State) /\ [][C8_Step]_vars

C8_Witness ==
  \E g \in Gens :
    /\ pc[g] = "done" /\ stopFlag[g] /\ AttemptsOf(g) = {}
    /\ ret.op = "start" /\ ret.res = "Ok" /\ ret.id = idOf[g] /\ ret.n > g
    /\ registry[KeyOf(idOf[g])] = ret.n

C9_Step ==
  /\ (cmd.op # "shutdown" /\ cmd'.op = "shutdown") =>
       \A k \in Keys :
         registry[k] # 0 =>
           /\ stopFlag'[registry[k]]
           /\ hpid[registry[k]] > 0 => hpid[registry[k]] \in cmd'.pgids
  /\ (cmd.op = "shutdown" /\ cmd' # cmd) =>
       /\ cmd.phase = "term" => cmd.pgids \subseteq termSent'
       /\ cmd.phase = "kill" =>
            \A p \in cmd.pgids : proc[p] = "alive" => p \in killSent' /\ proc'[p] # "alive"
       /\ cmd'.polls = cmd.polls + 1 \/ cmd'.phase # cmd.phase

C9_State ==
  cmd.op = "shutdown" =>
    /\ \A g \in cmd.reg : stopFlag[g]
    /\ cmd.phase # "term" => cmd.pgids \subseteq termSent
    /\ cmd.live \subseteq killSent
    /\ cmd.polls <= MaxPolls
    /\ exited <=> cmd.phase = "exit"
    /\ ~exited => ENABLED (SD_Term \/ SD_Poll \/ SD_TimeUp \/ SD_Kill)

\* C9: shutdown_all sets the flag of every registered handle and sends SIGTERM
\* to every registered pgid, sends SIGKILL to every collected group alive at
\* the end of the first window, and always has a next step until it returns,
\* after at most MaxPolls polls in each of its two windows
C9_ShutdownAll == [](C9_State) /\ [][C9_Step]_vars

C9_Witness ==
  /\ exited /\ cmd.op = "shutdown"
  /\ Cardinality(cmd.pgids) = 2 /\ cmd.live = cmd.pgids /\ killSent = cmd.pgids
  /\ cmd.reg = Registered

\* the places of a status sequence where a crashed report follows no running
Unpreceded(e) == { i \in 1..Len(e) : e[i] = "crashed" /\ (i = 1 \/ e[i-1] # "running") }

FailedOf(id) == { p \in Pids : proc[p] = "failed" /\ idOf[owner[p]] = id }

\* C10 as stated: every stopped or crashed event directly follows a running
\* event of its identity, and no running event directly follows another
C10_AsStated ==
  \A id \in Identities :
    \A i \in 1..Len(events[id]) :
      /\ events[id][i] \in {"stopped", "crashed"} => i > 1 /\ events[id][i-1] = "running"
      /\ events[id][i] = "running" /\ i > 1 => events[id][i-1] # "running"

\* C10, amended: every stopped event directly follows a running event, no
\* running event directly follows another, and the crashed events that do not
\* directly follow a running event are the reports of the failed spawn attempts
C10_Ordered ==
  \A id \in Identities :
    /\ \A i \in 1..Len(events[id]) :
         /\ events[id][i] = "stopped" => i > 1 /\ events[id][i-1] = "running"
         /\ events[id][i] = "running" /\ i > 1 => events[id][i-1] # "running"
    /\ Cardinality(Unpreceded(events[id])) = Cardinality(FailedOf(id))

C10_Witness ==
  \E id \in Identities :
    /\ events[id] = << "running", "crashed", "crashed" >>
    /\ Cardinality(FailedOf(id)) = 1

\* C11: no thread holds the registry lock while it is blocked: in particular no
\* thread holds it while it waits for a stdin mutex whose holder is inside the
\* write of write_to_process, where the registry steps of the threads of other
\* identities would have to wait with it
C11_LockNotHeldBlocked ==
  \A g \in Gens : mapLock = g => ~(Entry(g) # 0 /\ CellHeld(Entry(g)))

\* a component list padded with zeros to n components
Padded(parts, n) == [i \in 1..n |-> IF i <= Len(parts) THEN parts[i] ELSE 0]

\* a is strictly greater than b in lexicographic order from the first component
LexGreater(a, b) == \E i \in 1..Len(a) : a[i] > b[i] /\ \A j \in 1..(i - 1) : a[j] = b[j]

Longer(a, b) == IF Len(a) >= Len(b) THEN Len(a) ELSE Len(b)

\* the value of a component: its number when it is one, else 0
ComponentValue(part) ==
  IF part # << >> /\ \A i \in 1..Len(part) : part[i] \in Digit THEN DecimalValue(part) ELSE 0

StripOnePrefix(s, c) == IF s # << >> /\ Head(s) = c THEN Tail(s) ELSE s

\* the components as C12 states them: one leading "v" stripped, split on "."
ComponentsAsStated(s) ==
  LET parts == split(StripOnePrefix(s, "v"), ".")
  IN  [i \in 1..Len(parts) |-> ComponentValue(parts[i])]

\* the components after the whitespace at both ends and every leading "v" went
Components(s) ==
  LET parts == split(trim_start_matches(trim(s), "v"), ".")
  IN  [i \in 1..Len(parts) |-> ComponentValue(parts[i])]

Greater(a, b) == LexGreater(Padded(a, Longer(a, b)), Padded(b, Longer(a, b)))

\* C12 as stated: is_newer is true exactly when the components of latest, one
\* leading "v" stripped, are greater than those of current
C12_AsStated ==
  upd.op = "is_newer" =>
    (upd.res <=> Greater(ComponentsAsStated(latest), ComponentsAsStated(current)))

\* C12, amended: is_newer is true exactly when the components of latest are
\* greater than those of current in lexicographic order, the components taken
\* after trimming the whitespace at both ends and stripping every leading "v",
\* with missing trailing and non-numeric components as 0; the four examples of
\* the specification come out as given, and is_newer is never true both ways
C12_IsNewer ==
  upd.op = "is_newer" =>
    /\ upd.res <=> Greater(Components(latest), Components(current))
    /\ upd.res => ~is_newer_version(current, latest)
    /\ latest = << "1", ".", "2", ".", "0" >> /\ current = << "1", ".", "1", ".", "9" >> => upd.res
    /\ latest = << "2" >> /\ current = << "1", ".", "9", "9", ".", "9", "9" >> => upd.res
    /\ latest = << "1", ".", "0" >> /\ current = << "1", ".", "0", ".", "0" >> => ~upd.res
    /\ latest = << "1", ".", "0", ".", "0" >> /\ current = << "1", ".", "0" >> => ~upd.res

C12_Witness ==
  /\ upd.op = "is_newer" /\ upd.res
  /\ latest = << "v", "v", "1" >> /\ current = << "0", ".", "x" >>

\* the release has an asset named exactly MyTerm.zip
HasZip(assets) == \E i \in 1..Len(assets) : assets[i].name = "MyTerm.zip"

FirstZip(assets) == CHOOSE i \in 1..Len(assets) :
                      assets[i].name = "MyTerm.zip" /\ \A j \in 1..(i - 1) : assets[j].name # "MyTerm.zip"

\* the version a release tag names: the tag without its leading "v"
TagVersion(tag) == StripOnePrefix(tag, "v")

\* C13: once the release was fetched, check_for_update reports available
\* exactly when the version the latest tag names is newer than the current
\* version (with the URL of the asset named MyTerm.zip); newer without such an
\* asset is an error, not available=false; not newer is available=false with
\* an empty URL and no error, whatever the assets are
C13_CheckForUpdate ==
  (upd.op = "check" /\ upd.fetch = "ok") =>
    LET newer == is_newer_version(TagVersion(latest), current)
    IN  /\ upd.res.available => newer /\ upd.res.err = ""
        /\ newer /\ HasZip(upd.assets) =>
             upd.res = Ok(TRUE, latest, upd.assets[FirstZip(upd.assets)].browser_download_url)
        /\ newer /\ ~HasZip(upd.assets) => upd.res.err # "" /\ ~upd.res.available
        /\ ~newer => upd.res = Ok(FALSE, latest, "")

C13_Witness ==
  /\ upd.op = "check" /\ upd.fetch = "ok"
  /\ latest = << "v", "1", "1" >> /\ current = << "1", ".", "1", ".", "9" >>
  /\ Len(upd.assets) = 2 /\ ~HasZip(upd.assets)
  /\ upd.res.err = "Update available, but MyTerm.zip asset not found"

\* the order of the steps of install_update
InstallOrder == << "locate", "tempdir", "download", "extract", "find", "rm", "mv", "cp" >>

IsPrefix(a, b) == Len(a) <= Len(b) /\ a = SubSeq(b, 1, Len(a))

\* the step an error message of install_update comes from
StepOf(msg) ==
  CASE msg = "Could not determine app bundle path" -> "locate"
    [] msg = "temp dir" -> "tempdir"
    [] msg \in { "Failed to run gh CLI", "gh release download failed" } -> "download"
    [] msg = "Failed to unzip update" -> "extract"
    [] msg = "Could not locate extracted .app bundle" -> "find"
    [] msg = "Failed to move old app bundle" -> "mv"
    [] msg = "Failed to copy new app bundle" -> "cp"
    [] OTHER -> "none"

InstallFailed == inst.res \notin { "", "Ok" }

\* the rename of the live bundle has been done
Renamed == inst.pc = "cp" \/ Len(inst.trace) = Len(InstallOrder)

\* C14: install_update rejects an empty URL before any step; its steps run in
\* the one order locate, download, extract, locate-extracted, remove-backup,
\* rename, copy; a failing step is the last step that ran and its error is the
\* result, with no step enabled afterwards; Ok is returned only after the copy;
\* and the live bundle holds what it held until the rename itself succeeded
C14_Pipeline ==
  /\ IsPrefix(inst.trace, InstallOrder)
  /\ (inst.pc # "idle" /\ trim(inst.url) = << >>) =>
       inst.pc = "done" /\ inst.res = "Missing download URL" /\ inst.trace = << >>
  /\ InstallFailed =>
       /\ inst.pc = "done"
       /\ inst.trace # << >> => inst.trace[Len(inst.trace)] = StepOf(inst.res)
       /\ ~ENABLED (I_Locate \/ I_TempDir \/ I_Download \/ I_Unzip \/ I_FindExtracted
                      \/ I_RemoveBackup \/ I_Move \/ I_Copy)
  /\ inst.res = "Ok" => inst.pc = "done" /\ inst.trace = InstallOrder
  /\ (inst.pc = "done") <=> (inst.res # "")
  /\ (~Renamed /\ find_app_bundle_path # << >>) => fs[find_app_bundle_path] = "old"

C14_Witness ==
  /\ inst.res = "Could not locate extracted .app bundle"
  /\ inst.trace = << "locate", "tempdir", "download", "extract", "find" >>
  /\ fs[PrimaryBundle] = "old" /\ fs[BackupBundle] = "stale"
  /\ rst.pc = "done"

\* C15: the restart flag is set and the process exits through restart_app only
\* after the helper was spawned; restart_app goes on to the helper only when the
\* primary bundle exists; and when restart_app has returned an error no helper
\* exists, the flag is false and the process has not exited
C15_RestartApp ==
  /\ skip_process_cleanup => helper.st # "none" /\ rst.pc \in { "exit", "exited" }
  /\ exited => skip_process_cleanup /\ rst.pc = "exited"
  /\ rst.pc \in { "mark", "exit", "exited" } => helper.st # "none"
  /\ rst.pc \notin { "idle", "done" } => exists(rst.app_bundle)
  /\ rst.res = "Updated app bundle not found" => ~exists(rst.app_bundle)
  /\ rst.pc = "done" =>
       rst.res # "" /\ helper.st = "none" /\ ~skip_process_cleanup /\ ~exited

C15_Witness ==
  /\ inst.res = "Ok" /\ exe = PrimaryBundle \o InBundle
  /\ rst.pc = "done" /\ rst.res = "helper not spawned"
  /\ helper.st = "none" /\ ~skip_process_cleanup /\ ~exited

\* the paths restart_app derives from the running executable
RestartLive == resolve_primary_app_bundle_path(find_app_bundle_path)

RestartBackup == with_extension(RestartLive, << "app", "old" >>)

\* C19: after install_update returned Ok the path restart_app resolves as the
\* live bundle holds the new bundle and the path it hands to the helper as the
\* backup holds the previous one, whether the executable lies in the primary
\* bundle or in a backup bundle; the helper opens the new bundle
C19_BundlePaths ==
  /\ (inst.res = "Ok" /\ rst.pc = "idle") =>
       /\ RestartLive \in BundlePaths /\ fs[RestartLive] = "new"
       /\ RestartBackup \in BundlePaths /\ fs[RestartBackup] \in { "old", "nested" }
  /\ (inst.res = "Ok" /\ rst.pc # "idle") => rst.res # "Updated app bundle not found"
  /\ (inst.res = "Ok" /\ helper.st \in { "opened", "finished" }) => helper.opened = "new"

\* the restart flag is never cleared, and only the store of restart_app sets it
C16_FlagStep ==
  /\ skip_process_cleanup => skip_process_cleanup'
  /\ (~skip_process_cleanup /\ skip_process_cleanup') => rst.pc = "mark" /\ rst'.pc = "exit"

\* the exit handler with the flag set: no stop flag set, no signal sent; with
\* the flag clear: the stop flag of every registered handle set, the shutdown
\* begun with the pgids of the registry, the exit prevented
C16_HandlerStep ==
  ExitRequested =>
    IF skip_process_cleanup
    THEN UNCHANGED << stopFlag, termSent, killSent, proc, cmd >>
    ELSE /\ ~exited'
         /\ cmd'.op = "shutdown" /\ cmd'.phase = "term"
         /\ cmd'.pgids = { hpid[g] : g \in Registered } \ {0}
         /\ \A g \in Registered : stopFlag'[g]

\* the process has exited through restart_app, through a handler that skipped
\* the cleanup, or at the end of the shutdown; signals come from the shutdown only
C16_State ==
  /\ skip_process_cleanup => rst.pc \in { "exit", "exited" }
  /\ exited =>
       \/ rst.pc = "exited"
       \/ skip_process_cleanup /\ rst.pc = "exit"
       \/ cmd.op = "shutdown" /\ cmd.phase = "exit" /\ cmd.pgids \subseteq termSent
  /\ cmd.op # "shutdown" => termSent = {} /\ killSent = {} /\ \A g \in Gens : ~stopFlag[g]

\* C16: the restart flag starts false, is never cleared once set and is set
\* only by restart_app; the exit handler that runs with the flag set sets no
\* stop flag and sends no signal, and the one that runs with the flag clear
\* performs the shutdown of all processes before the exit
C16_RestartFlag ==
  /\ ~skip_process_cleanup
  /\ [](C16_State)
  /\ [][C16_FlagStep /\ C16_HandlerStep]_vars

C16_Witness ==
  /\ exited /\ skip_process_cleanup /\ rst.pc = "exit" /\ cmd = Idle
  /\ \E g \in Registered : hpid[g] > 0 /\ proc[hpid[g]] = "alive" /\ ~stopFlag[g]
  /\ termSent = {} /\ killSent = {}

\* the spawn attempts of a handle that gave a child
SpawnedOf(g) == { p \in AttemptsOf(g) : proc[p] \notin { "unborn", "failed" } }

\* C17: a handle has pid 0 and an empty stdin cell until the first successful
\* spawn of its thread; its pid is then the pid of the child spawned last; its
\* cell holds a pipe, that of this child, only from the store after the spawn
\* to the clear after the wait, and is empty at the exit decision, in the
\* backoff, at the flag check, at the next spawn and when the loop has ended
C17_HandleCells ==
  \A g \in Gens :
    /\ SpawnedOf(g) = {} => hpid[g] = 0 /\ stdinCell[g] = 0
    /\ hpid[g] # 0 => hpid[g] \in SpawnedOf(g)
    /\ pc[g] \in { "wait", "clear", "decide", "backoff" } => hpid[g] = child[g]
    /\ stdinCell[g] # 0 =>
         pc[g] \in { "wait", "clear" } /\ stdinCell[g] = child[g] /\ child[g] \in SpawnedOf(g)
    /\ pc[g] = "wait" => stdinCell[g] = child[g]
    /\ pc[g] \in { "decide", "backoff", "check", "spawn", "record", "remove", "done" } =>
         stdinCell[g] = 0

C17_Witness ==
  \E g \in Gens :
    /\ pc[g] = "record" /\ child[g] = 2 /\ proc[2] = "alive"
    /\ hpid[g] = 1 /\ proc[1] = "reaped" /\ stdinCell[g] = 0
    /\ ret.op = "write" /\ ret.res = "StdinUnavailable" /\ ret.id = idOf[g]

\* the thread of g made a spawn attempt that failed in this step
SpawnFails(g) ==
  pc[g] = "spawn" /\ nSpawn' = nSpawn + 1 /\ owner'[nSpawn'] = g /\ proc'[nSpawn'] = "failed"

FailedLine == << "stderr", "Failed to start" >>

\* the number of lines of a log that report a failed start
RECURSIVE FailedLines(_)
FailedLines(lg) ==
  IF lg = << >> THEN 0
  ELSE FailedLines(Tail(lg)) + (IF Head(lg) = FailedLine THEN 1 ELSE 0)

C18_Step ==
  \A g \in Gens :
    /\ SpawnFails(g) =>
         /\ logs'[idOf[g]] = Append(logs[idOf[g]], FailedLine)
         /\ Emits(g, "crashed")
         /\ pc'[g] = IF autorestart[g] THEN "backoff" ELSE "remove"
         /\ UNCHANGED << registry, hpid, stdinCell, stopFlag >>
    /\ (pc[g] = "backoff" /\ pc'[g] # "backoff") => pc'[g] = "check"
    /\ (pc[g] = "check" /\ pc'[g] # "check") =>
         pc'[g] = IF stopFlag[g] THEN "remove" ELSE "spawn"
    /\ (pc[g] = "remove" /\ pc'[g] # "remove") =>
         pc'[g] = "done" /\ registry'[KeyOf(idOf[g])] = 0

C18_State ==
  /\ \A id \in Identities : FailedLines(logs[id]) = Cardinality(FailedOf(id))
  /\ \A p \in Pids : proc[p] = "failed" => outcome[p] = "crashed"
  /\ \A g \in Gens :
       (\E p \in AttemptsOf(g) : proc[p] = "failed") =>
         /\ ~autorestart[g] => pc[g] \in { "remove", "done" } /\ Cardinality(AttemptsOf(g)) = 1
         /\ (autorestart[g] /\ pc[g] \in { "remove", "done" }) => stopFlag[g]

\* C18: a failed spawn attempt emits the "Failed to start" line on stderr and a
\* crashed status; without autorestart the loop ends and the identity is
\* removed; with autorestart the loop backs off and comes back to the stop-flag
\* check, which ends the loop when a stop has set the flag and leads to the
\* next attempt when not
C18_SpawnFailure == [](C18_State) /\ [][C18_Step]_vars

C18_Witness ==
  \E g \in Gens :
    /\ autorestart[g] /\ stopFlag[g] /\ pc[g] = "done"
    /\ AttemptsOf(g) = { 1, 2 } /\ proc[1] = "failed" /\ proc[2] = "failed"
    /\ logs[idOf[g]] = << FailedLine, FailedLine >>
    /\ registry[KeyOf(idOf[g])] = 0

\* the children the step of an escalation thread sends SIGKILL to
KilledNow == killSent' \ killSent

\* C20: the forceful kill of an escalation thread goes only to a child of the
\* handle that was registered when its stop was called, never to the child of
\* a handle registered later under the same identity
C20_WatchdogOwnHandle ==
  [][\A i \in DOMAIN wd :
       (wd[i].st = "armed" /\ wd'[i].st = "fired") =>
         \A p \in KilledNow \cap Pids : owner[p] = wd[i].gen]_vars

\* a child that was spawned and has not been waited on
Unreaped(p) == p \in Pids /\ proc[p] \in { "alive", "zombie" }

\* the pgids this step sends SIGTERM or SIGKILL to
SignalledNow ==
  (termSent' \ termSent) \cup KilledNow
    \cup (IF cmd.op = "stop" /\ cmd' = Idle THEN StopTermTargets(cmd.pid) ELSE {})
    \cup (IF cmd.op = "shutdown" /\ cmd.phase = "term" /\ cmd'.phase # "term"
          THEN SignalTargets(cmd.pgids) ELSE {})

\* C21: stop, its escalation thread and the shutdown of all send SIGTERM and
\* SIGKILL only to the group of a child that was spawned and has not been
\* waited on
C21_SignalsUnreaped == [][\A p \in SignalledNow : Unreaped(p)]_vars

\* the exit handler's stop_all_processes and wait_then_force_kill have returned
ShutdownFinished == cmd.op = "shutdown" /\ cmd.phase = "exit"

\* C22: when the shutdown of all has finished, every child that is alive has
\* been sent SIGTERM or SIGKILL
C22_NoChildUnsignalled ==
  ShutdownFinished => \A p \in Pids : proc[p] = "alive" => p \in termSent \cup killSent

\* stop_process returned Ok for handle g
StoppedOk(g) == \E i \in DOMAIN wd : wd[i].gen = g

\* the loop of g has terminated and its entry is gone from the registry
Ended(g) == pc[g] = "done" /\ registry[KeyOf(idOf[g])] # g

\* the loop of g is at a spawn that the bound on spawn attempts keeps back
OutOfSpawns(g) == pc[g] = "spawn" /\ nSpawn = MaxSpawns

MissedKill(g) ==
  /\ \A i \in DOMAIN wd : wd[i].gen = g => wd[i].st = "fired" /\ wd[i].target # child[g]
  /\ pc[g] = "wait" /\ proc[child[g]] = "alive"

StoppedEmitted(g) == \E p \in AttemptsOf(g) : outcome[p] = "stopped"

\* the loop of g has a child: it is between the spawn and the flag check that
\* follows the wait
HasChild(g) == pc[g] \in { "record", "wait", "clear", "decide" }

C24_Step ==
  \A g \in Gens :
    /\ (pc[g] = "check" /\ pc'[g] = "remove") => events' = events
    /\ (Decides(g) /\ stopFlag[g]) => Emits(g, "stopped") /\ outcome'[child[g]] = "stopped"

UnreapedOf(id) == { p \in Pids : Unreaped(p) /\ idOf[owner[p]] = id }

C25_Step ==
  \A g \in Gens :
    (pc[g] = "spawn" /\ nSpawn' = nSpawn + 1 /\ owner'[nSpawn'] = g) =>
      /\ UnreapedOf(idOf[g]) = {}
      /\ \A p \in AttemptsOf(g) : proc[p] \in { "failed", "reaped" }

\* C25: an identity has at most one child that was spawned and not yet waited
\* on, and a loop spawns only when every earlier child of the identity has
\* been waited on, across restarts and across a stop and a new start
C25_OneChild ==
  /\ [](\A id \in Identities : Cardinality(UnreapedOf(id)) <= 1)
  /\ [][C25_Step]_vars

C25_Witness ==
  \E g, h \in Gens :
    /\ g < h /\ idOf[g] = idOf[h] /\ stopFlag[g] /\ pc[g] = "done"
    /\ proc[1] = "reaped" /\ owner[1] = g
    /\ proc[2] = "alive" /\ owner[2] = h

\* C26: the registry entry under the key of an identity is a handle of that
\* identity, a stop or a write acts on a handle of the identity it names, and a
\* start is rejected only when a loop of its own identity is live, also for
\* identities with "::" in the path or in the name
C26_OwnHandle ==
  /\ \A id \in SeparatorIdentities :
       registry[KeyOf(id)] # 0 => idOf[registry[KeyOf(id)]] = id
  /\ cmd.op \in { "stop", "write" } => idOf[cmd.gen] = cmd.id
  /\ (ret.op = "start" /\ ret.res = "AlreadyRunning") =>
       \E g \in Gens : idOf[g] = ret.id /\ Live(g)
====
